---- MODULE Spec2Model ----
(***************************************************************************)
(* Model of src/main.rs of demo-rust-opentelemetry-stdout: main            *)
(* initialises a tracer, a meter and a logger provider that export to      *)
(* standard output, emits one log record, one span (with a nested log      *)
(* record) and ten metric observations, then shuts the providers down.     *)
(* The meter provider uses a periodic exporter, whose timer runs in the    *)
(* background and is the only source of concurrency.                       *)
(*                                                                         *)
(* The histogram measurements 1.0, 1.0, 2.0, 1.0, 11.0 are whole numbers   *)
(* and are modelled as the integers 1, 1, 2, 1, 11.                        *)
(***************************************************************************)
EXTENDS Integers, Sequences, FiniteSets

VARIABLES
    pc,         \* the statement main is about to execute
    k,          \* index of the next counter.add / histogram.record call
    steps,      \* the calls main has made so far, in order
    tracer,     \* state of the tracer provider
    meter,      \* state of the meter provider
    logger,     \* state of the logger provider
    cx,         \* current context: the active span's identifiers, or none
    span,       \* the span of emit_span
    counter,    \* aggregation of function-emit-metrics-counter
    histogram,  \* aggregation of function-emit-metrics-histogram
    out,        \* standard output: the exported blocks, in order
    ticks       \* how many times the periodic metric timer has fired

vars == <<pc, k, steps, tracer, meter, logger, cx, span, counter, histogram,
          out, ticks>>

(* Bounds *)
MaxTicks == 2
MaxId == 2

\* identifiers the SDK's random generator can draw: never the invalid id 0
Ids == 1..MaxId
NoId == 0

NoContext == [trace |-> NoId, span |-> NoId]

EmptyMap == [x \in {} |-> ""]
Put(f, key, v) == [x \in (DOMAIN f) \cup {key} |-> IF x = key THEN v ELSE f[x]]

(***************************************************************************)
(* main's control flow                                                     *)
(***************************************************************************)
MainNextNoSpan(p) ==
    CASE p = "init_tracer_provider" -> "init_meter_provider"
      [] p = "init_meter_provider"  -> "init_logger_provider"
      [] p = "init_logger_provider" -> "emit_log"
      [] p = "emit_log"             -> "emit_metrics"
      [] p = "emit_span"            -> "emit_metrics"
      [] p = "emit_metrics"         -> "tracer_shutdown"
      [] p = "tracer_shutdown"      -> "meter_shutdown"
      [] p = "meter_shutdown"       -> "logger_shutdown"
      [] p = "logger_shutdown"      -> "Ok"

MainNextSpanFirst(p) ==
    CASE p = "init_tracer_provider" -> "init_meter_provider"
      [] p = "init_meter_provider"  -> "init_logger_provider"
      [] p = "init_logger_provider" -> "emit_span"
      [] p = "emit_span"            -> "emit_log"
      [] p = "emit_log"             -> "emit_metrics"
      [] p = "emit_metrics"         -> "tracer_shutdown"
      [] p = "tracer_shutdown"      -> "meter_shutdown"
      [] p = "meter_shutdown"       -> "logger_shutdown"
      [] p = "logger_shutdown"      -> "Ok"

MainNextEarlyShutdown(p) ==
    CASE p = "init_tracer_provider" -> "init_meter_provider"
      [] p = "init_meter_provider"  -> "init_logger_provider"
      [] p = "init_logger_provider" -> "tracer_shutdown"
      [] p = "tracer_shutdown"      -> "meter_shutdown"
      [] p = "meter_shutdown"       -> "logger_shutdown"
      [] p = "logger_shutdown"      -> "emit_log"
      [] p = "emit_log"             -> "emit_span"
      [] p = "emit_span"            -> "emit_metrics"
      [] p = "emit_metrics"         -> "Ok"

\* the statement of main that follows statement p
MainNext(p) ==
    CASE p = "init_tracer_provider" -> "init_meter_provider"
      [] p = "init_meter_provider"  -> "init_logger_provider"
      [] p = "init_logger_provider" -> "emit_log"
      [] p = "emit_log"             -> "emit_span"
      [] p = "emit_span"            -> "emit_metrics"
      [] p = "emit_metrics"         -> "tracer_shutdown"
      [] p = "tracer_shutdown"      -> "meter_shutdown"
      [] p = "meter_shutdown"       -> "logger_shutdown"
      [] p = "logger_shutdown"      -> "Ok"

AfterShutdownBestEffort(p, ok) == MainNext(p)

\* `provider.shutdown()?`: an Err returns from main at once
AfterShutdown(p, ok) == IF ok THEN MainNext(p) ELSE "Err"

\* the process's exit code; -1 while main is running
ExitCode == IF pc = "Ok" THEN 0 ELSE IF pc = "Err" THEN 1 ELSE -1

(***************************************************************************)
(* Log records                                                             *)
(***************************************************************************)
LogRecordUncorrelated(name, target, severity, attrs) ==
    [name |-> name, target |-> target, severity |-> severity, attrs |-> attrs,
     trace |-> NoId, span |-> NoId]

\* a record of the logging facility, bridged to the logger provider; it
\* takes the identifiers of the current context
LogRecord(name, target, severity, attrs) ==
    [name |-> name, target |-> target, severity |-> severity, attrs |-> attrs,
     trace |-> cx.trace, span |-> cx.span]

\* the simple log processor prints a record as soon as it is emitted; without
\* an initialised logger provider, nothing receives it
ExportLog(o, rec) ==
    IF logger = "init" THEN Append(o, [kind |-> "log", data |-> rec]) ELSE o

\* a debug record the SDK writes about itself
SdkLog(name) == LogRecord(name, "opentelemetry_sdk", "DEBUG", [name |-> name])

EmitLogAttrsWithName ==
    [name |-> "function-emit-log-my-name",
     event_id |-> 20,
     user_name |-> "function-emit-log-my-target-user-name",
     user_email |-> "function-emit-log-my-user-email"]

EmitLogAttrs ==
    [event_id |-> 20,
     user_name |-> "function-emit-log-my-target-user-name",
     user_email |-> "function-emit-log-my-user-email"]

EmitSpanLogAttrs ==
    [event_id |-> 20,
     user_name |-> "function-emit-span-my-target-user-name",
     user_email |-> "function-emit-span-my-user-email"]

(***************************************************************************)
(* Metric fixtures and aggregation                                         *)
(***************************************************************************)
AppleGreen   == [name |-> "apple",  color |-> "green"]
AppleRed     == [name |-> "apple",  color |-> "red"]
BananaYellow == [name |-> "banana", color |-> "yellow"]

CounterAdds ==
    << [v |-> 1,  a |-> AppleGreen],
       [v |-> 1,  a |-> AppleGreen],
       [v |-> 2,  a |-> AppleRed],
       [v |-> 1,  a |-> BananaYellow],
       [v |-> 11, a |-> BananaYellow] >>

HistogramRecords ==
    << [v |-> 1,  a |-> AppleGreen],
       [v |-> 1,  a |-> AppleGreen],
       [v |-> 2,  a |-> AppleRed],
       [v |-> 1,  a |-> BananaYellow],
       [v |-> 11, a |-> BananaYellow] >>

NoData == [x \in {} |-> 0]

Min(a, b) == IF a < b THEN a ELSE b
Max(a, b) == IF a > b THEN a ELSE b

CounterAddLastValue(agg, v, a) ==
    [x \in (DOMAIN agg) \cup {a} |-> IF x = a THEN v ELSE agg[x]]

\* counter.add(v, a): the sum of the data point whose attribute set is a
CounterAdd(agg, v, a) ==
    [x \in (DOMAIN agg) \cup {a} |->
        IF x = a
        THEN (IF a \in DOMAIN agg THEN agg[a] + v ELSE v)
        ELSE agg[x]]

\* the default bucket boundaries; bucket i holds boundary i-1 < v <= boundary i
Boundaries == <<0, 5, 10, 25, 50, 75, 100, 250, 500, 750, 1000, 2500, 5000,
                7500, 10000>>

BucketOf(v) ==
    IF \E i \in 1..Len(Boundaries) : v <= Boundaries[i]
    THEN CHOOSE i \in 1..Len(Boundaries) :
            /\ v <= Boundaries[i]
            /\ \A j \in 1..(i - 1) : v > Boundaries[j]
    ELSE Len(Boundaries) + 1

NoBuckets == [i \in 1..(Len(Boundaries) + 1) |-> 0]

HistogramRecordNoMinMax(agg, v, a) ==
    [x \in (DOMAIN agg) \cup {a} |->
        IF x = a
        THEN (IF a \in DOMAIN agg
              THEN [count |-> agg[a].count + 1, sum |-> agg[a].sum + v,
                    min |-> agg[a].min, max |-> agg[a].max,
                    buckets |-> [agg[a].buckets EXCEPT ![BucketOf(v)] = @ + 1]]
              ELSE [count |-> 1, sum |-> v, min |-> v, max |-> v,
                    buckets |-> [NoBuckets EXCEPT ![BucketOf(v)] = 1]])
        ELSE agg[x]]

\* histogram.record(v, a): count, sum, min, max and buckets of the data point
\* whose attribute set is a
HistogramRecord(agg, v, a) ==
    [x \in (DOMAIN agg) \cup {a} |->
        IF x = a
        THEN (IF a \in DOMAIN agg
              THEN [count |-> agg[a].count + 1, sum |-> agg[a].sum + v,
                    min |-> Min(agg[a].min, v), max |-> Max(agg[a].max, v),
                    buckets |-> [agg[a].buckets EXCEPT ![BucketOf(v)] = @ + 1]]
              ELSE [count |-> 1, sum |-> v, min |-> v, max |-> v,
                    buckets |-> [NoBuckets EXCEPT ![BucketOf(v)] = 1]])
        ELSE agg[x]]

\* the metrics block the exporter prints: cumulative temporality, so the
\* snapshot is the running totals and collecting does not reset them
MetricsBlock == [kind |-> "metrics",
                 data |-> [counter |-> counter, histogram |-> histogram]]

\* the reader exports nothing while no data point exists
ExportMetrics(o) ==
    IF DOMAIN counter = {} /\ DOMAIN histogram = {} THEN o
    ELSE Append(o, MetricsBlock)

(***************************************************************************)
(* The span of emit_span                                                   *)
(***************************************************************************)
NoSpan == [name |-> "", scope |-> "", trace |-> NoId, id |-> NoId,
           attrs |-> EmptyMap, events |-> <<>>, state |-> "none", ends |-> 0]

Init ==
    /\ pc = "init_tracer_provider"
    /\ k = 1
    /\ steps = <<>>
    /\ tracer = "none"
    /\ meter = "none"
    /\ logger = "none"
    /\ cx = NoContext
    /\ span = NoSpan
    /\ counter = NoData
    /\ histogram = NoData
    /\ out = <<>>
    /\ ticks = 0

(***************************************************************************)
(* Provider initialisation                                                 *)
(***************************************************************************)
InitTracerProvider ==
    /\ pc = "init_tracer_provider"
    /\ tracer' = "init"
    /\ steps' = Append(steps, "init_tracer_provider")
    /\ pc' = MainNext(pc)
    /\ UNCHANGED <<k, meter, logger, cx, span, counter, histogram, out, ticks>>

InitMeterProvider ==
    /\ pc = "init_meter_provider"
    /\ meter' = "init"
    /\ steps' = Append(steps, "init_meter_provider")
    /\ pc' = MainNext(pc)
    /\ UNCHANGED <<k, tracer, logger, cx, span, counter, histogram, out, ticks>>

InitLoggerProvider ==
    /\ pc = "init_logger_provider"
    /\ logger' = "init"
    /\ steps' = Append(steps, "init_logger_provider")
    /\ pc' = MainNext(pc)
    /\ UNCHANGED <<k, tracer, meter, cx, span, counter, histogram, out, ticks>>

(***************************************************************************)
(* emit_log                                                                *)
(***************************************************************************)
EmitLog ==
    /\ pc = "emit_log"
    /\ out' = ExportLog(out, LogRecord("function-emit-log-my-name",
                                       "function-emit-log-my-target",
                                       "ERROR", EmitLogAttrs))
    /\ steps' = Append(steps, "emit_log")
    /\ pc' = MainNext(pc)
    /\ UNCHANGED <<k, tracer, meter, logger, cx, span, counter, histogram, ticks>>

(***************************************************************************)
(* emit_span                                                               *)
(***************************************************************************)
\* tracer.in_span("example-span", ...): starts the span and makes it the
\* current context for the closure; a tracer of a provider that is not
\* initialised is a no-op tracer, its span has the invalid identifiers
EmitSpanInSpan ==
    /\ pc = "emit_span"
    /\ steps' = Append(steps, "emit_span")
    /\ IF tracer = "init"
       THEN \E t \in Ids, s \in Ids :
               /\ span' = [name |-> "example-span", scope |-> "stdout-example",
                           trace |-> t, id |-> s, attrs |-> EmptyMap,
                           events |-> <<>>, state |-> "open", ends |-> 0]
               /\ cx' = [trace |-> t, span |-> s]
       ELSE /\ span' = NoSpan
            /\ cx' = NoContext
    /\ pc' = "set_attribute"
    /\ UNCHANGED <<k, tracer, meter, logger, counter, histogram, out, ticks>>

EmitSpanSetAttributeTwice ==
    /\ pc = "set_attribute"
    /\ span' = IF span.state = "open"
               THEN [span EXCEPT !.attrs = Put(Put(@, "my-attribute", "my-value"),
                                               "my-attribute-2", "my-value")]
               ELSE span
    /\ pc' = "add_event"
    /\ UNCHANGED <<k, steps, tracer, meter, logger, cx, counter, histogram, out,
                   ticks>>

EmitSpanSetAttribute ==
    /\ pc = "set_attribute"
    /\ span' = IF span.state = "open"
               THEN [span EXCEPT !.attrs = Put(@, "my-attribute", "my-value")]
               ELSE span
    /\ pc' = "add_event"
    /\ UNCHANGED <<k, steps, tracer, meter, logger, cx, counter, histogram, out,
                   ticks>>

EmitSpanAddEvent ==
    /\ pc = "add_event"
    /\ span' = IF span.state = "open"
               THEN [span EXCEPT !.events =
                        Append(@, [name |-> "example-event-name",
                                   attrs |-> [event_attribute1 |-> "event_value1"]])]
               ELSE span
    /\ pc' = "error"
    /\ UNCHANGED <<k, steps, tracer, meter, logger, cx, counter, histogram, out,
                   ticks>>

EmitSpanError ==
    /\ pc = "error"
    /\ out' = ExportLog(out, LogRecord("function-emit-span-my-name",
                                       "function-emit-span-my-target",
                                       "ERROR", EmitSpanLogAttrs))
    /\ pc' = "end_span"
    /\ UNCHANGED <<k, steps, tracer, meter, logger, cx, span, counter, histogram,
                   ticks>>

\* the closure returns: the span ends, the simple span processor prints it,
\* and the previous context is restored
EmitSpanEnd ==
    /\ pc = "end_span"
    /\ IF span.state = "open"
       THEN /\ span' = [span EXCEPT !.state = "closed", !.ends = @ + 1]
            /\ out' = IF tracer = "init"
                      THEN Append(out, [kind |-> "span", data |-> span'])
                      ELSE out
       ELSE UNCHANGED <<span, out>>
    /\ cx' = NoContext
    /\ pc' = MainNext("emit_span")
    /\ UNCHANGED <<k, steps, tracer, meter, logger, counter, histogram, ticks>>

(***************************************************************************)
(* emit_metrics                                                            *)
(***************************************************************************)
\* global::meter("function-emit-metrics-meter")
EmitMetricsMeter ==
    /\ pc = "emit_metrics"
    /\ steps' = Append(steps, "emit_metrics")
    /\ out' = IF meter = "init"
              THEN ExportLog(out, SdkLog("MeterProvider.NewMeterCreated"))
              ELSE out
    /\ pc' = "u64_counter"
    /\ UNCHANGED <<k, tracer, meter, logger, cx, span, counter, histogram, ticks>>

\* meter.u64_counter("function-emit-metrics-counter").build()
EmitMetricsCounterBuild ==
    /\ pc = "u64_counter"
    /\ out' = IF meter = "init"
              THEN ExportLog(out, SdkLog("Metrics.InstrumentCreated"))
              ELSE out
    /\ k' = 1
    /\ pc' = "counter.add"
    /\ UNCHANGED <<steps, tracer, meter, logger, cx, span, counter, histogram,
                   ticks>>

\* the k-th counter.add call
EmitMetricsCounterAdd ==
    /\ pc = "counter.add"
    /\ counter' = IF meter = "init"
                  THEN CounterAdd(counter, CounterAdds[k].v, CounterAdds[k].a)
                  ELSE counter
    /\ IF k < Len(CounterAdds)
       THEN /\ k' = k + 1
            /\ pc' = pc
       ELSE /\ k' = 1
            /\ pc' = "f64_histogram"
    /\ UNCHANGED <<steps, tracer, meter, logger, cx, span, histogram, out, ticks>>

\* meter.f64_histogram("function-emit-metrics-histogram").build()
EmitMetricsHistogramBuild ==
    /\ pc = "f64_histogram"
    /\ out' = IF meter = "init"
              THEN ExportLog(out, SdkLog("Metrics.InstrumentCreated"))
              ELSE out
    /\ k' = 1
    /\ pc' = "histogram.record"
    /\ UNCHANGED <<steps, tracer, meter, logger, cx, span, counter, histogram,
                   ticks>>

\* the k-th histogram.record call
EmitMetricsHistogramRecord ==
    /\ pc = "histogram.record"
    /\ histogram' = IF meter = "init"
                    THEN HistogramRecord(histogram, HistogramRecords[k].v,
                                         HistogramRecords[k].a)
                    ELSE histogram
    /\ IF k < Len(HistogramRecords)
       THEN /\ k' = k + 1
            /\ pc' = pc
       ELSE /\ k' = 1
            /\ pc' = MainNext("emit_metrics")
    /\ UNCHANGED <<steps, tracer, meter, logger, cx, span, counter, out, ticks>>

(***************************************************************************)
(* The periodic metric reader's timer                                      *)
(***************************************************************************)
\* the timer fires while the meter provider is running: the reader collects
\* the cumulative totals and the exporter prints them
TimerTick ==
    /\ meter = "init"
    /\ pc \notin {"Ok", "Err"}
    /\ ticks < MaxTicks
    /\ ticks' = ticks + 1
    /\ out' = ExportMetrics(out)
    /\ UNCHANGED <<pc, k, steps, tracer, meter, logger, cx, span, counter,
                   histogram>>

(***************************************************************************)
(* Provider shutdown                                                       *)
(***************************************************************************)
\* tracer_provider.shutdown()?
TracerShutdown ==
    /\ pc = "tracer_shutdown"
    /\ steps' = Append(steps, "tracer_shutdown")
    /\ \E ok \in BOOLEAN :
          /\ tracer' = IF ok THEN "shutdown" ELSE "shutdown_failed"
          /\ pc' = AfterShutdown(pc, ok)
    /\ UNCHANGED <<k, meter, logger, cx, span, counter, histogram, out, ticks>>

MeterShutdownNoFlush ==
    /\ pc = "meter_shutdown"
    /\ steps' = Append(steps, "meter_shutdown")
    /\ \E ok \in BOOLEAN :
          /\ meter' = IF ok THEN "shutdown" ELSE "shutdown_failed"
          /\ out' = ExportLog(out, SdkLog("MeterProvider.Shutdown"))
          /\ pc' = AfterShutdown(pc, ok)
    /\ UNCHANGED <<k, tracer, logger, cx, span, counter, histogram, ticks>>

\* meter_provider.shutdown()?: stops the timer and flushes once more; the
\* shutdown fails when that last export fails
MeterShutdown ==
    /\ pc = "meter_shutdown"
    /\ steps' = Append(steps, "meter_shutdown")
    /\ \E ok \in BOOLEAN :
          /\ meter' = IF ok THEN "shutdown" ELSE "shutdown_failed"
          /\ out' = IF ok
                    THEN ExportMetrics(ExportLog(out, SdkLog("MeterProvider.Shutdown")))
                    ELSE ExportLog(out, SdkLog("MeterProvider.Shutdown"))
          /\ pc' = AfterShutdown(pc, ok)
    /\ UNCHANGED <<k, tracer, logger, cx, span, counter, histogram, ticks>>

\* logger_provider.shutdown()?
LoggerShutdown ==
    /\ pc = "logger_shutdown"
    /\ steps' = Append(steps, "logger_shutdown")
    /\ \E ok \in BOOLEAN :
          /\ logger' = IF ok THEN "shutdown" ELSE "shutdown_failed"
          /\ out' = ExportLog(out, SdkLog("LoggerProvider.ShutdownInvokedByUser"))
          /\ pc' = AfterShutdown(pc, ok)
    /\ UNCHANGED <<k, tracer, meter, cx, span, counter, histogram, ticks>>

Next ==
    \/ InitTracerProvider
    \/ InitMeterProvider
    \/ InitLoggerProvider
    \/ EmitLog
    \/ EmitSpanInSpan
    \/ EmitSpanSetAttribute
    \/ EmitSpanAddEvent
    \/ EmitSpanError
    \/ EmitSpanEnd
    \/ EmitMetricsMeter
    \/ EmitMetricsCounterBuild
    \/ EmitMetricsCounterAdd
    \/ EmitMetricsHistogramBuild
    \/ EmitMetricsHistogramRecord
    \/ TimerTick
    \/ TracerShutdown
    \/ MeterShutdown
    \/ LoggerShutdown

Spec == Init /\ [][Next]_vars

(***************************************************************************)
(* What is on standard output                                              *)
(***************************************************************************)
IsLog(b) == b.kind = "log"
IsSpan(b) == b.kind = "span"
IsMetrics(b) == b.kind = "metrics"
IsSdkLog(b) == b.kind = "log" /\ b.data.target = "opentelemetry_sdk"
IsAppLog(b) == b.kind = "log" /\ b.data.target # "opentelemetry_sdk"
IsAppBlock(b) == ~IsSdkLog(b)

AppLogs == SelectSeq(out, IsAppLog)
SpanBlocks == SelectSeq(out, IsSpan)
MetricsBlocks == SelectSeq(out, IsMetrics)
AppBlocks == SelectSeq(out, IsAppBlock)

Kinds(s) == [i \in 1..Len(s) |-> s[i].kind]
Occurrences(s, x) == Cardinality({i \in 1..Len(s) : s[i] = x})

\* positions of main from which a log record, the span, a metric observation
\* is about to be produced or is being produced
LogPcs == {"emit_log", "error"}
SpanPcs == {"emit_span", "set_attribute", "add_event", "error", "end_span"}
MetricPcs == {"emit_metrics", "u64_counter", "counter.add", "f64_histogram",
              "histogram.record"}
AfterEmitLogPcs == {"emit_span", "set_attribute", "add_event", "error",
                    "end_span", "emit_metrics", "u64_counter", "counter.add",
                    "f64_histogram", "histogram.record", "tracer_shutdown",
                    "meter_shutdown", "logger_shutdown", "Ok", "Err"}
AfterCounterPcs == {"f64_histogram", "histogram.record", "tracer_shutdown",
                    "meter_shutdown", "logger_shutdown", "Ok", "Err"}
AfterHistogramPcs == {"tracer_shutdown", "meter_shutdown", "logger_shutdown",
                      "Ok", "Err"}

MainOrder == <<"init_tracer_provider", "init_meter_provider",
               "init_logger_provider", "emit_log", "emit_span", "emit_metrics",
               "tracer_shutdown", "meter_shutdown", "logger_shutdown">>

\* C1: the calls main has made are always a prefix of the one fixed order
\* init tracer, init meter, init logger, emit_log, emit_span, emit_metrics,
\* shutdown tracer, shutdown meter, shutdown logger; main is always at the
\* call that follows that prefix (or has returned), and a run that returns Ok
\* has made all nine, each once.
C1_FixedOrder ==
    /\ Len(steps) <= Len(MainOrder)
    /\ steps = SubSeq(MainOrder, 1, Len(steps))
    /\ pc = "Ok" => steps = MainOrder
    /\ pc \in {"init_tracer_provider", "init_meter_provider",
               "init_logger_provider", "emit_log", "emit_span", "emit_metrics",
               "tracer_shutdown", "meter_shutdown", "logger_shutdown"}
          => pc = MainOrder[Len(steps) + 1]
    /\ pc \in SpanPcs \ {"emit_span"} => steps[Len(steps)] = "emit_span"
    /\ pc \in MetricPcs \ {"emit_metrics"} => steps[Len(steps)] = "emit_metrics"

C1_Witness == pc = "Ok" /\ steps = MainOrder

\* C2: a failed shutdown makes main return the error at once: the provider
\* that failed was the last one attempted, the providers later in the order
\* tracer, meter, logger are still running and their shutdown was never
\* called, no shutdown is called twice, and main returns Ok (exit code 0)
\* only with all three providers shut down.
C2_ShutdownShortCircuit ==
    /\ tracer = "shutdown_failed" =>
          /\ pc = "Err" /\ ExitCode # 0
          /\ meter = "init" /\ logger = "init"
          /\ Occurrences(steps, "meter_shutdown") = 0
          /\ Occurrences(steps, "logger_shutdown") = 0
    /\ meter = "shutdown_failed" =>
          /\ pc = "Err" /\ ExitCode # 0
          /\ logger = "init"
          /\ Occurrences(steps, "logger_shutdown") = 0
    /\ logger = "shutdown_failed" => pc = "Err" /\ ExitCode # 0
    /\ \A p \in {"tracer_shutdown", "meter_shutdown", "logger_shutdown"} :
          Occurrences(steps, p) <= 1
    /\ ExitCode = 0 =>
          tracer = "shutdown" /\ meter = "shutdown" /\ logger = "shutdown"
    /\ pc = "Err" => "shutdown_failed" \in {tracer, meter, logger}

C2_Witness == pc = "Err" /\ meter = "shutdown_failed" /\ tracer = "shutdown"

\* C3: whenever main is at a statement that produces a log record, the span
\* or a metric observation, the owning provider (logger, tracer, meter) is
\* initialised and not shut down; and a provider that is shut down has
\* received everything the program emits to it.
C3_Lifecycle ==
    /\ pc \in LogPcs => logger = "init"
    /\ pc \in SpanPcs => tracer = "init"
    /\ pc \in MetricPcs => meter = "init"
    /\ logger \in {"shutdown", "shutdown_failed"} => Len(AppLogs) = 2
    /\ tracer \in {"shutdown", "shutdown_failed"} => Len(SpanBlocks) = 1
    /\ meter \in {"shutdown", "shutdown_failed"} =>
          /\ Cardinality(DOMAIN counter) = 3
          /\ Cardinality(DOMAIN histogram) = 3

C3_Witness ==
    /\ pc = "histogram.record" /\ k = Len(HistogramRecords)
    /\ meter = "init" /\ Len(AppLogs) = 2 /\ Len(SpanBlocks) = 1

\* C4: the log record emitted inside the in_span closure carries the trace
\* identifier and span identifier of the span example-span, the same ones
\* the span is exported with, and they are valid; the log record of
\* emit_log carries neither.
C4_Correlation ==
    /\ \A i \in 1..Len(AppLogs) :
          /\ AppLogs[i].data.name = "function-emit-span-my-name" =>
                /\ AppLogs[i].data.trace = span.trace
                /\ AppLogs[i].data.span = span.id
                /\ AppLogs[i].data.trace # NoId
                /\ AppLogs[i].data.span # NoId
                /\ \A j \in 1..Len(SpanBlocks) :
                      /\ SpanBlocks[j].data.trace = AppLogs[i].data.trace
                      /\ SpanBlocks[j].data.id = AppLogs[i].data.span
          /\ AppLogs[i].data.name = "function-emit-log-my-name" =>
                /\ AppLogs[i].data.trace = NoId
                /\ AppLogs[i].data.span = NoId
    /\ pc \in {"end_span", "emit_metrics"} =>
          \E i \in 1..Len(AppLogs) :
             AppLogs[i].data.name = "function-emit-span-my-name"

C4_Witness ==
    /\ pc = "emit_metrics"
    /\ Len(AppLogs) = 2 /\ Len(SpanBlocks) = 1
    /\ AppLogs[2].data.trace = MaxId

RECURSIVE CounterFold(_, _, _)
CounterFold(calls, order, agg) ==
    IF order = <<>> THEN agg
    ELSE CounterFold(calls, Tail(order),
                     CounterAdd(agg, calls[Head(order)].v, calls[Head(order)].a))

Permutations5 ==
    {f \in [1..5 -> 1..5] : \A i, j \in 1..5 : f[i] = f[j] => i = j}

CounterTotalsAre(c) ==
    /\ DOMAIN c = {AppleGreen, AppleRed, BananaYellow}
    /\ c[AppleGreen] = 2
    /\ c[AppleRed] = 2
    /\ c[BananaYellow] = 12

\* C5: once the five counter.add calls are made, the counter has exactly
\* three data points, 2 for apple/green, 2 for apple/red and 12 for
\* banana/yellow, the flush of a successful meter shutdown prints these, and
\* making the five calls in any other order gives the same data points.
C5_CounterTotals ==
    /\ pc \in AfterCounterPcs => CounterTotalsAre(counter)
    /\ meter = "shutdown" =>
          /\ Len(MetricsBlocks) >= 1
          /\ CounterTotalsAre(MetricsBlocks[Len(MetricsBlocks)].data.counter)
    /\ pc = "f64_histogram" =>
          \A f \in Permutations5 : CounterFold(CounterAdds, f, NoData) = counter

C5_Witness == pc = "f64_histogram" /\ ticks = 0 /\ Cardinality(DOMAIN counter) = 3

HistogramPointIs(h, c, s, lo, hi) ==
    h.count = c /\ h.sum = s /\ h.min = lo /\ h.max = hi

HistogramTotalsAre(h) ==
    /\ DOMAIN h = {AppleGreen, AppleRed, BananaYellow}
    /\ HistogramPointIs(h[AppleGreen], 2, 2, 1, 1)
    /\ HistogramPointIs(h[AppleRed], 1, 2, 2, 2)
    /\ HistogramPointIs(h[BananaYellow], 2, 12, 1, 11)

\* C6: once the five histogram.record calls are made, the histogram has
\* exactly three data points: apple/green count 2, sum 2, min 1, max 1;
\* apple/red count 1, sum 2, min 2, max 2; banana/yellow count 2, sum 12,
\* min 1, max 11; the flush of a successful meter shutdown prints these, and
\* every data point's bucket counts add up to its count.
C6_HistogramTotals ==
    /\ pc \in AfterHistogramPcs => HistogramTotalsAre(histogram)
    /\ meter = "shutdown" =>
          /\ Len(MetricsBlocks) >= 1
          /\ HistogramTotalsAre(MetricsBlocks[Len(MetricsBlocks)].data.histogram)
    /\ pc \in AfterHistogramPcs =>
          /\ histogram[BananaYellow].buckets[2] = 1
          /\ histogram[BananaYellow].buckets[4] = 1
          /\ histogram[AppleGreen].buckets[2] = 2
          /\ histogram[AppleRed].buckets[2] = 1

C6_Witness ==
    /\ pc = "tracer_shutdown"
    /\ Cardinality(DOMAIN histogram) = 3
    /\ histogram[BananaYellow].max = 11

EmitLogRecordIs(r) ==
    /\ r.name = "function-emit-log-my-name"
    /\ r.target = "function-emit-log-my-target"
    /\ r.severity = "ERROR"

\* C7 as stated: emit_log submits exactly one log record, of severity ERROR,
\* with the fixed name and target, and with exactly four attributes.
C7_FourAttributes ==
    pc \in AfterEmitLogPcs =>
        /\ Len(AppLogs) >= 1
        /\ EmitLogRecordIs(AppLogs[1].data)
        /\ Cardinality(DOMAIN AppLogs[1].data.attrs) = 4

\* C7 amended: emit_log submits exactly one log record, of severity ERROR,
\* with the fixed name and target, and its attribute set is exactly the
\* three pairs event_id = 20, user_name and user_email.
C7_ThreeAttributes ==
    /\ pc \in AfterEmitLogPcs =>
          /\ Len(AppLogs) >= 1
          /\ EmitLogRecordIs(AppLogs[1].data)
          /\ DOMAIN AppLogs[1].data.attrs = {"event_id", "user_name", "user_email"}
          /\ AppLogs[1].data.attrs.event_id = 20
          /\ AppLogs[1].data.attrs.user_name = "function-emit-log-my-target-user-name"
          /\ AppLogs[1].data.attrs.user_email = "function-emit-log-my-user-email"
          /\ \A i \in 2..Len(AppLogs) :
                AppLogs[i].data.name # "function-emit-log-my-name"
    /\ pc \notin AfterEmitLogPcs => Len(AppLogs) = 0

C7_Witness == pc = "emit_span" /\ Len(AppLogs) = 1 /\ Len(out) = 1

\* C8: the span of emit_span is open exactly while the in_span closure runs;
\* once closed it has been ended once and printed once, as printed it has
\* exactly one event, example-event-name, with one attribute, exactly one
\* span attribute, my-attribute, and a valid trace and span identifier.
C8_SpanContents ==
    /\ span.state = "open" <=> pc \in {"set_attribute", "add_event", "error",
                                       "end_span"}
    /\ span.state = "closed" =>
          /\ span.ends = 1
          /\ Len(SpanBlocks) = 1
          /\ SpanBlocks[1].data = span
          /\ span.name = "example-span"
          /\ Len(span.events) = 1
          /\ span.events[1].name = "example-event-name"
          /\ Cardinality(DOMAIN span.events[1].attrs) = 1
          /\ DOMAIN span.attrs = {"my-attribute"}
          /\ span.trace # NoId
          /\ span.id # NoId
    /\ span.state # "closed" => Len(SpanBlocks) = 0
    /\ pc \in AfterEmitLogPcs \ SpanPcs => span.state = "closed"

C8_Witness == span.state = "closed" /\ pc = "u64_counter" /\ span.id = MaxId

\* C9: whatever the timer did, after a successful meter shutdown the last
\* metrics block printed holds the totals of all five counter increments and
\* all five histogram recordings, and no metrics block shows a smaller total
\* or fewer data points than a block printed before it.
C9_FinalFlush ==
    /\ meter = "shutdown" =>
          /\ Len(MetricsBlocks) >= 1
          /\ CounterTotalsAre(MetricsBlocks[Len(MetricsBlocks)].data.counter)
          /\ HistogramTotalsAre(MetricsBlocks[Len(MetricsBlocks)].data.histogram)
          /\ out[Len(out)].kind = "metrics" \/ pc \in {"Ok", "Err"}
    /\ \A i, j \in 1..Len(MetricsBlocks) :
          i < j =>
             /\ \A a \in DOMAIN MetricsBlocks[i].data.counter :
                   /\ a \in DOMAIN MetricsBlocks[j].data.counter
                   /\ MetricsBlocks[i].data.counter[a]
                         <= MetricsBlocks[j].data.counter[a]
             /\ \A a \in DOMAIN MetricsBlocks[i].data.histogram :
                   /\ a \in DOMAIN MetricsBlocks[j].data.histogram
                   /\ MetricsBlocks[i].data.histogram[a].count
                         <= MetricsBlocks[j].data.histogram[a].count

C9_Witness ==
    /\ meter = "shutdown"
    /\ Len(MetricsBlocks) >= 3
    /\ Cardinality(DOMAIN MetricsBlocks[1].data.counter) = 1

\* C10 as stated: a run of main that returns Ok has printed, apart from the
\* SDK's own debug records, one log record, the span with its nested log
\* record, and one metrics block, in this order.
C10_OneMetricsBlock ==
    pc = "Ok" =>
        /\ ExitCode = 0
        /\ Kinds(AppBlocks) = <<"log", "log", "span", "metrics">>

\* C10 amended: a run of main that returns Ok (exit code 0) has printed,
\* apart from the SDK's own debug records, the log record of emit_log, then
\* the log record emitted inside the span, then the span block, then one or
\* more metrics blocks: one for each time the timer fired once observations
\* existed, and last the one of the meter shutdown.
C10_EndToEnd ==
    pc = "Ok" =>
        /\ ExitCode = 0
        /\ Len(AppBlocks) >= 4
        /\ Len(AppBlocks) <= 4 + ticks
        /\ SubSeq(Kinds(AppBlocks), 1, 3) = <<"log", "log", "span">>
        /\ \A i \in 4..Len(AppBlocks) : AppBlocks[i].kind = "metrics"
        /\ AppBlocks[1].data.name = "function-emit-log-my-name"
        /\ AppBlocks[2].data.name = "function-emit-span-my-name"
        /\ AppBlocks[3].data.name = "example-span"
        /\ CounterTotalsAre(AppBlocks[Len(AppBlocks)].data.counter)

C10_Witness == pc = "Ok" /\ Len(MetricsBlocks) = 1 /\ Len(out) > 4

====
